---- MODULE Spec2Model ----
(***************************************************************************)
(* Job orchestration of the PetAvatar pipeline: the two ingestion handlers *)
(* (process-handler, s3-event-handler), the SQS-driven process-worker and  *)
(* the DynamoDB job table they share.                                      *)
(*                                                                         *)
(* Strings that the code parses are sequences of their '/'-separated       *)
(* segments: "uploads/a/original" is <<"uploads", "a", "original">> and    *)
(* "s3://bkt/uploads/a/x" is <<"s3:", "", "bkt", "uploads", "a", "x">>.    *)
(* None and the empty string are "" (or <<>> for a parsed string): the     *)
(* code tests both with `not x`.  A DynamoDB item is a function from the   *)
(* attribute names it carries to their values.                             *)
(***************************************************************************)
EXTENDS Integers, Sequences, FiniteSets, Bags, TLC

\* ------------------------------------------------------------------ bounds
MaxTriggers == 2     \* ingestion triggers that reach the job table in one run
NumWorkers == 2      \* concurrent process-worker invocations
MaxBatch == 2        \* records handed to one invocation (SQS batch, S3 event)
MaxTime == 1         \* clock ticks
MaxAttempts == 8     \* attempts the retry wrapper is tried with

Workers == 1..NumWorkers

\* ------------------------------------------------------ program constants
max_size == 50 * 1024 * 1024
ttl_window == 7 * 24 * 60 * 60
max_retries == 3
valid_types == {"image/jpeg", "image/png", "image/heic"}
Terminal == {"completed", "failed"}

\* ------------------------------------------------------------ input sets
UploadBucket == "upload-bkt"
OtherBucket == "other-bkt"
StoredKey == "k-good"

KeyA == <<"uploads", "a", "original">>
KeyB == <<"uploads", "b", "photo.png">>
KeyNoRest == <<"uploads", "a", "">>
KeyOther == <<"tmp", "x.png">>
ObjectKeys == {KeyA, KeyB, KeyNoRest, KeyOther}
Uuids == {"uuid-1"}

Uri(bucket, key) == <<"s3:", "", bucket>> \o key
NoUri == <<>>
BadUri == <<"http:", "", UploadBucket, "uploads", "a", "original">>

ApiKeys == {"", StoredKey, "k-bad"}
\* event['body']: the key absent, null (no body sent), text that is not
\* JSON, or a JSON object (with the s3_uri of the request, if any).
Bodies == {"absent", "null", "malformed", "object"}
\* What Secrets Manager answers: an exception, or the secret's api_key
\* ("" when the secret holds none).
SecretStates == {[raises |-> TRUE, api_key |-> ""],
                 [raises |-> FALSE, api_key |-> ""],
                 [raises |-> FALSE, api_key |-> StoredKey]}
GoodSecret == [raises |-> FALSE, api_key |-> StoredKey]
\* What head_object answers: an exception, or the object's metadata.
HeadResults == {[raises |-> TRUE, ContentType |-> "", ContentLength |-> 0]}
    \cup [raises : {FALSE}, ContentType : {"image/png", "image/gif"},
          ContentLength : {0, 1, max_size, max_size + 1}]

VARIABLES
    table,      \* the DynamoDB job table: a set of items
    queue,      \* the SQS processing queue: a bag of dispatch messages
    now,        \* the clock the handlers read
    worker,     \* worker[w]: one process-worker invocation
    s3h,        \* the s3-event-handler invocation
    request,    \* the credential of the last client request and what guards it
    resp,       \* the response to that request
    calls,      \* the job-table and queue calls made for that response
    seen,       \* what get_item handed to the handler of that request
    triggers,   \* ingestion triggers that reached the job table so far
    generated,  \* the writes to the generated-avatars bucket: a bag of keys
    terminal_writes, \* the writes of a terminal status: a bag of job ids
    enqueued,   \* job ids for which send_message has been accepted
    handled     \* <<trigger kind, object key>> of the triggers answered with success

http == <<request, resp, calls, seen>>
ingest == <<triggers, enqueued, handled>>
output == <<generated, terminal_writes>>
vars == <<table, queue, now, worker, s3h, http, output, ingest>>

\* ------------------------------------------------------------- DynamoDB
EmptyItem == [a \in {} |-> ""]
Merge(item, sets) ==
    [a \in DOMAIN item \cup DOMAIN sets |->
        IF a \in DOMAIN sets THEN sets[a] ELSE item[a]]
Opt(name, present, value) == IF present THEN (name :> value) ELSE EmptyItem

get_item(t, job_id) == {r \in t : r.job_id = job_id}

\* A put that keeps the item already stored under the key.
put_item_append(t, item) == t \cup {item}

put_item(t, item) == {r \in t : r.job_id # item.job_id} \cup {item}

update_item(t, job_id, sets) ==
    LET old == get_item(t, job_id)
        base == IF old = {} THEN [job_id |-> job_id] ELSE CHOOSE r \in old : TRUE
    IN  (t \ old) \cup {Merge(base, sets)}

\* --------------------------------------------------------------- SQS
send_message(q, m) == q (+) SetToBag({m})

Message(job_id, key, timestamp) ==
    [job_id |-> job_id, s3_upload_key |-> key, timestamp |-> timestamp]

\* The job ids whose messages q2 holds more often than q.
Sent(q, q2) ==
    {m.job_id : m \in {x \in BagToSet(q2) : CopiesIn(x, q2) > CopiesIn(x, q)}}

\* ------------------------------------------------------ shared helpers
\* validate_api_key with an except clause that lets the request through.
validate_api_key_fail_open(api_key, secret_arn, secret) ==
    IF api_key = "" THEN FALSE
    ELSE IF ~secret_arn THEN TRUE
    ELSE IF secret.raises THEN TRUE
    ELSE api_key = secret.api_key

\* validate_api_key that lets every key through when the secret holds none.
validate_api_key_no_key(api_key, secret_arn, secret) ==
    IF api_key = "" THEN FALSE
    ELSE IF ~secret_arn THEN TRUE
    ELSE IF secret.raises THEN FALSE
    ELSE secret.api_key = "" \/ api_key = secret.api_key

validate_api_key(api_key, secret_arn, secret) ==
    IF api_key = "" THEN FALSE
    ELSE IF ~secret_arn THEN TRUE
    ELSE IF secret.raises THEN FALSE
    ELSE api_key = secret.api_key

\* event['headers']['x-api-key'] with the deployment's secret configuration.
Received(handler, req, env, secret) ==
    [handler |-> handler, api_key |-> req.api_key,
     secret_arn |-> env.secret_arn, secret |-> secret]

create_error_response(handler, status_code, error_type) ==
    [handler |-> handler, statusCode |-> status_code, error_type |-> error_type]

\* An exception that leaves func(event, context): its class and, for a
\* botocore ClientError, e.response['Error']['Code'].
Exc(type, code) == [type |-> type, code |-> code]
ErrorCodes == {"AccessDenied", "ResourceNotFoundException",
               "ThrottlingException", "ProvisionedThroughputExceededException"}
\* isinstance(e, ValueError): json.JSONDecodeError is a subclass.
ValueErrors == {"ValueError", "JSONDecodeError"}

\* A wrapper that answers every AWS error with 500.
handle_lambda_errors_flat(handler, e) ==
    IF e.type = "ClientError"
    THEN create_error_response(handler, 500, "AWSError")
    ELSE IF e.type \in ValueErrors
    THEN create_error_response(handler, 400, "ValidationError")
    ELSE create_error_response(handler, 500, "InternalError")

\* The wrapper of every client-facing handler: what it returns when the
\* handler raises e.
handle_lambda_errors(handler, e) ==
    IF e.type = "ClientError"
    THEN create_error_response(handler,
            IF e.code \in {"AccessDenied", "UnauthorizedException"} THEN 403
            ELSE IF e.code \in {"ResourceNotFoundException", "NoSuchKey"} THEN 404
            ELSE IF e.code \in {"ThrottlingException", "TooManyRequestsException"}
            THEN 429
            ELSE 500,
            "AWSError")
    ELSE IF e.type \in ValueErrors
    THEN create_error_response(handler, 400, "ValidationError")
    ELSE create_error_response(handler, 500, "InternalError")

\* --------------------------------------------------- process-handler
parse_s3_uri_ok(s3_uri) ==
    /\ Len(s3_uri) >= 4
    /\ s3_uri[1] = "s3:"
    /\ s3_uri[2] = ""
    /\ s3_uri[3] # ""
    /\ (Len(s3_uri) > 4 \/ s3_uri[4] # "")

parse_s3_uri(s3_uri) ==
    [bucket |-> s3_uri[3], key |-> SubSeq(s3_uri, 4, Len(s3_uri))]

validate_s3_object(head) ==
    /\ ~head.raises
    /\ head.ContentType \in valid_types
    /\ ~(head.ContentLength > max_size)

\* re.match(r'uploads/([^/]+)/', key): the job id, or "" for no match.
extract_job_id_match(key) ==
    IF Len(key) >= 3 /\ key[1] = "uploads" /\ key[2] # "" THEN key[2] ELSE ""

\* A new record that starts half way.
NewItem_half(job_id, key, timestamp) ==
    [job_id |-> job_id, status |-> "queued", created_at |-> timestamp,
     updated_at |-> timestamp, s3_upload_key |-> key, progress |-> 50,
     ttl |-> timestamp + ttl_window]

NewItem(job_id, key, timestamp) ==
    [job_id |-> job_id, status |-> "queued", created_at |-> timestamp,
     updated_at |-> timestamp, s3_upload_key |-> key, progress |-> 0,
     ttl |-> timestamp + ttl_window]

\* One request to the process-handler.  req: the api key, body and s3_uri sent;
\* env: which variables are configured; secret, head: what Secrets Manager
\* and head_object answer; uuid: the uuid4 drawn when the key carries no
\* job id; aws: whether put_item and send_message succeed.
ProcessHandler(req, env, secret, head, uuid, aws) ==
    LET s3_uri == IF req.body = "object" THEN req.s3_uri ELSE NoUri
        parsed == parse_s3_uri(s3_uri)
        match == extract_job_id_match(parsed.key)
        job_id == IF match # "" THEN match ELSE uuid
        item == NewItem(job_id, parsed.key, now)
        msg == Message(job_id, parsed.key, now)
        Reject(r) == /\ resp' = r
                     /\ calls' = {} /\ seen' = {}
                     /\ UNCHANGED <<table, queue, ingest>>
    IN
    /\ UNCHANGED <<now, worker, s3h, output>>
    /\ request' = Received("process", req, env, secret)
    /\ IF ~validate_api_key(req.api_key, env.secret_arn, secret)
       THEN Reject(create_error_response("process", 401, "AuthenticationError"))
       ELSE IF req.body = "null"
       THEN Reject(handle_lambda_errors("process", Exc("TypeError", "")))
       ELSE IF req.body = "malformed"
       THEN Reject(handle_lambda_errors("process", Exc("JSONDecodeError", "")))
       ELSE IF s3_uri = NoUri \/ s3_uri = <<"">>
       THEN Reject(create_error_response("process", 400, "ValidationError"))
       ELSE IF ~parse_s3_uri_ok(s3_uri)
       THEN Reject(create_error_response("process", 400, "ValidationError"))
       ELSE IF ~validate_s3_object(head)
       THEN Reject(create_error_response("process", 400, "ValidationError"))
       ELSE IF ~env.config
       THEN Reject(handle_lambda_errors("process", Exc("ValueError", "")))
       ELSE /\ triggers < MaxTriggers
            /\ match = "" =>
                 /\ get_item(table, uuid) = {}
                 /\ uuid \notin enqueued
            /\ triggers' = triggers + 1
            /\ IF aws = "put_fails"
               THEN /\ \E code \in ErrorCodes :
                               resp' = handle_lambda_errors(
                                           "process", Exc("ClientError", code))
                    /\ calls' = {"put_item"} /\ seen' = {}
                    /\ UNCHANGED <<table, queue, enqueued, handled>>
               ELSE /\ table' = put_item(table, item)
                    /\ IF aws = "send_fails"
                       THEN /\ \E code \in ErrorCodes :
                               resp' = handle_lambda_errors(
                                           "process", Exc("ClientError", code))
                            /\ calls' = {"put_item", "send_message"} /\ seen' = {}
                            /\ UNCHANGED <<queue, enqueued, handled>>
                       ELSE /\ queue' = send_message(queue, msg)
                            /\ enqueued' = enqueued \cup Sent(queue, queue')
                            /\ resp' = [handler |-> "process", statusCode |-> 200,
                                        job_id |-> job_id, status |-> "queued"]
                            /\ calls' = {"put_item", "send_message"} /\ seen' = {}
                            /\ handled' = handled \cup {<<"client", parsed.key>>}

\* --------------------------------------------------- s3-event-handler
\* A pattern that asks for the prefix and a job id only.
validate_object_key_prefix(key) ==
    IF Len(key) >= 2 /\ key[1] = "uploads" /\ key[2] # ""
    THEN key[2] ELSE ""

\* re.match(r'^uploads/([^/]+)/.+$', key): the job id, or "" for None.
validate_object_key(key) ==
    IF /\ Len(key) >= 3
       /\ key[1] = "uploads"
       /\ key[2] # ""
       /\ (Len(key) > 3 \/ key[3] # "")
    THEN key[2] ELSE ""

S3Idle(status_code, processed, errors) ==
    [pc |-> "idle", recs |-> <<>>, ts |-> 0, found |-> FALSE,
     statusCode |-> status_code, processed |-> processed, errors |-> errors]

\* A loop that returns its summary at the first record it has dealt with.
S3Continue_return(h, processed, errors) == S3Idle(200, processed, errors)

\* `continue`, or the return of the summary after the last record.
S3Continue(h, processed, errors) ==
    IF Len(h.recs) > 1
    THEN [h EXCEPT !.pc = "get", !.recs = Tail(h.recs), !.found = FALSE,
                   !.ts = 0, !.processed = processed, !.errors = errors]
    ELSE S3Idle(200, processed, errors)

EventRecords ==
    {[bucket |-> UploadBucket, key |-> k] : k \in {KeyA, KeyB, KeyOther}}
    \cup {[bucket |-> "", key |-> <<>>]}
Events == UNION {[1..n -> EventRecords] : n \in 1..MaxBatch}

\* The handler is invoked with an S3 event.
S3Begin(event, env) ==
    /\ s3h.pc = "idle"
    /\ IF ~env.config
       THEN /\ s3h' = S3Idle(400, 0, 0)
            /\ UNCHANGED triggers
       ELSE /\ triggers + Len(event) <= MaxTriggers
            /\ triggers' = triggers + Len(event)
            /\ s3h' = [S3Idle(0, 0, 0) EXCEPT !.pc = "get", !.recs = event]
    /\ UNCHANGED <<table, queue, now, worker, http, output, enqueued, handled>>

\* The loop body up to get_item, for the record at the head of recs.
S3Get(aws_ok) ==
    LET rec == Head(s3h.recs)
        job_id == validate_object_key(rec.key)
    IN
    /\ s3h.pc = "get"
    /\ IF rec.bucket = "" \/ rec.key = <<>>
       THEN s3h' = S3Continue(s3h, s3h.processed, s3h.errors + 1)
       ELSE IF job_id = ""
       THEN s3h' = S3Continue(s3h, s3h.processed, s3h.errors + 1)
       ELSE IF ~aws_ok
       THEN s3h' = S3Continue(s3h, s3h.processed, s3h.errors + 1)
       ELSE s3h' = [s3h EXCEPT !.pc = "write", !.ts = now,
                               !.found = (get_item(table, job_id) # {})]
    /\ UNCHANGED <<table, queue, now, worker, http, output, ingest>>

\* put_item or update_item on what get_item answered, then send_message.
S3Write(aws) ==
    LET rec == Head(s3h.recs)
        job_id == validate_object_key(rec.key)
        msg == Message(job_id, rec.key, s3h.ts)
    IN
    /\ s3h.pc = "write"
    /\ UNCHANGED <<now, worker, http, output, triggers>>
    /\ IF aws = "put_fails"
       THEN /\ s3h' = S3Continue(s3h, s3h.processed, s3h.errors + 1)
            /\ UNCHANGED <<table, queue, enqueued, handled>>
       ELSE /\ table' = IF ~s3h.found
                        THEN put_item(table, NewItem(job_id, rec.key, s3h.ts))
                        ELSE update_item(table, job_id,
                                 [updated_at |-> s3h.ts, s3_upload_key |-> rec.key])
            /\ IF aws = "send_fails"
               THEN /\ s3h' = S3Continue(s3h, s3h.processed, s3h.errors + 1)
                    /\ UNCHANGED <<queue, enqueued, handled>>
               ELSE /\ queue' = send_message(queue, msg)
                    /\ enqueued' = enqueued \cup Sent(queue, queue')
                    /\ s3h' = S3Continue(s3h, s3h.processed + 1, s3h.errors)
                    /\ handled' = handled \cup {<<"event", rec.key>>}

\* ------------------------------------------------------ process-worker
\* update_job_status without its error_message clause.
update_job_status_no_error(t, job_id, status, progress, error_message, results, ts) ==
    update_item(t, job_id,
        Merge(Merge([status |-> status, updated_at |-> ts],
                    Opt("progress", progress # <<>>, progress[1])),
              [a \in DOMAIN results
                   \cap {"identity_package", "pet_analysis", "s3_avatar_key"}
                 |-> results[a]]))

\* update_job_status: one unconditional update_item.  progress is <<>> for
\* None or <<n>>; error_message is <<>> for None; results is EmptyItem for
\* None.  Only the result attributes the dictionary holds are stored.
update_job_status(t, job_id, status, progress, error_message, results, ts) ==
    update_item(t, job_id,
        Merge(Merge(Merge([status |-> status, updated_at |-> ts],
                          Opt("progress", progress # <<>>, progress[1])),
                    Opt("error_message", error_message # <<>>, error_message)),
              [a \in DOMAIN results
                   \cap {"identity_package", "pet_analysis", "s3_avatar_key"}
                 |-> results[a]]))

\* retry_with_exponential_backoff(max_retries = n) around a call whose
\* attempts end as outcomes[1], outcomes[2], ... (TRUE: it returned).
\* attempt counts from 0 as in the code.
\* The wrapper sleeping the base delay before every further attempt.
RECURSIVE retry_from_flat(_, _, _, _)
retry_from_flat(outcomes, n, attempt, delays) ==
    IF attempt >= n
    THEN [ok |-> FALSE, attempts |-> attempt, delays |-> delays]
    ELSE IF outcomes[attempt + 1]
    THEN [ok |-> TRUE, attempts |-> attempt + 1, delays |-> delays]
    ELSE IF attempt = n - 1
    THEN [ok |-> FALSE, attempts |-> attempt + 1, delays |-> delays]
    ELSE retry_from_flat(outcomes, n, attempt + 1, Append(delays, 1))

RECURSIVE retry_from(_, _, _, _)
retry_from(outcomes, n, attempt, delays) ==
    IF attempt >= n
    THEN [ok |-> FALSE, attempts |-> attempt, delays |-> delays]
    ELSE IF outcomes[attempt + 1]
    THEN [ok |-> TRUE, attempts |-> attempt + 1, delays |-> delays]
    ELSE IF attempt = n - 1
    THEN [ok |-> FALSE, attempts |-> attempt + 1, delays |-> delays]
    ELSE LET d == 1 * (2 ^ attempt)
             delay == IF d < 60 THEN d ELSE 60
         IN  retry_from(outcomes, n, attempt + 1, Append(delays, delay))

retry_with_exponential_backoff(outcomes, n) == retry_from(outcomes, n, 0, <<>>)

\* Python numbers as the AWS SDK and json see them: an int, a float, or the
\* decimal.Decimal the DynamoDB resource hands back for every stored number.
Number(type, n) == [type |-> type, n |-> n]

\* What invoke_agent returns when the call goes through: the placeholder,
\* whose identity_package holds "similarity_score": 85.0, a float.
AgentResult ==
    [pet_analysis |-> [species |-> "dog", breed |-> "Unknown"],
     career_profile |-> "career-profile",
     avatar_image_base64 |-> "",
     identity_package |-> [human_name |-> "Alex Johnson",
                           similarity_score |-> Number("float", 85)]]

\* The numbers inside the result attributes update_job_status would store.
ResultNumbers(results) ==
    IF "identity_package" \in DOMAIN results
    THEN {results.identity_package.similarity_score}
    ELSE {}

\* The resource's serializer of ExpressionAttributeValues: it takes int and
\* Decimal and raises TypeError on a float, before any request is sent.
TypeSerializerRaises(numbers) == \E v \in numbers : v.type = "float"

\* json.dumps with the default encoder: TypeError on a Decimal.
json_dumps_raises(numbers) == \E v \in numbers : v.type = "Decimal"

\* f"{type(e).__name__}: {str(e)}"
ErrorMessage(e) == <<e.type, ": ", e.msg>>

DownloadError == [type |-> "ClientError", msg |-> "GetObject: NoSuchKey"]
AgentError == [type |-> "ClientError", msg |-> "InvokeAgent: throttlingException"]
ArnError == [type |-> "ValueError", msg |-> "AGENT_RUNTIME_ARN environment variable not set"]
UploadError == [type |-> "ClientError", msg |-> "PutObject: AccessDenied"]
FloatError ==
    [type |-> "TypeError",
     msg |-> "Float types are not supported. Use Decimal types instead."]

\* retry: what the retry wrapper did in the invocation's last invoke_agent.
NoRetry == [ok |-> FALSE, attempts |-> 0, delays |-> <<>>]
WorkerIdle == [pc |-> "idle", batch |-> <<>>, i |-> 0, retry |-> NoRetry]

SeqToBag(s) ==
    [m \in {s[k] : k \in DOMAIN s} |-> Cardinality({k \in DOMAIN s : s[k] = m})]

\* The batches of at most MaxBatch messages the queue can hand out.
Batches ==
    {b \in UNION {[1..n -> BagToSet(queue)] : n \in 1..MaxBatch} :
        \A m \in BagToSet(queue) : CopiesIn(m, SeqToBag(b)) <= CopiesIn(m, queue)}

\* handler's own try/except: whether an exception of process_job leaves the
\* handler as an exception (it never does: the except returns a 500 body).
handler_raises(exception) == FALSE

\* The Lambda event source mapping: a batch whose invocation returned is
\* deleted; one whose invocation raised becomes visible again.
AfterInvocation(q, batch, raised) == IF raised THEN q (+) SeqToBag(batch) ELSE q

\* SQS hands a batch to an idle worker (the lowest-numbered one).
Deliver(w, batch) ==
    /\ worker[w].pc = "idle"
    /\ \A v \in Workers : v < w => worker[v].pc # "idle"
    /\ batch \in Batches
    /\ queue' = queue (-) SeqToBag(batch)
    /\ worker' = [worker EXCEPT ![w] = [pc |-> "start", batch |-> batch, i |-> 1,
                                        retry |-> NoRetry]]
    /\ UNCHANGED <<table, now, s3h, http, output, ingest>>

\* process_job returned: the loop goes on, or the handler returns 200.
WorkerNext(w) ==
    IF worker[w].i < Len(worker[w].batch)
    THEN /\ worker' = [worker EXCEPT ![w].pc = "start", ![w].i = @ + 1,
                                      ![w].retry = NoRetry]
         /\ UNCHANGED queue
    ELSE /\ worker' = [worker EXCEPT ![w] =
                                 [WorkerIdle EXCEPT !.retry = worker[w].retry]]
         /\ queue' = AfterInvocation(queue, worker[w].batch, FALSE)

\* process_job raised: the handler's except clause ends the invocation.
WorkerRaise(w, retry) ==
    /\ worker' = [worker EXCEPT ![w] = [WorkerIdle EXCEPT !.retry = retry]]
    /\ queue' = AfterInvocation(queue, worker[w].batch, handler_raises(TRUE))

\* The except clause of process_job: the failed write, then the re-raise.
WorkerFail(w, e, retry) ==
    /\ table' = update_job_status(table, worker[w].batch[worker[w].i].job_id,
                                  "failed", <<>>, ErrorMessage(e), EmptyItem, now)
    /\ terminal_writes' =
           terminal_writes (+) SetToBag({worker[w].batch[worker[w].i].job_id})
    /\ WorkerRaise(w, retry)

\* A checkpoint that moves on without storing the new progress.
Checkpoint_skip(w, progress, pc, retry) ==
    /\ table' = update_job_status(table, worker[w].batch[worker[w].i].job_id,
                                  "processing", <<>>, <<>>, EmptyItem, now)
    /\ worker' = [worker EXCEPT ![w].pc = pc, ![w].retry = retry]
    /\ UNCHANGED <<queue, terminal_writes>>

Checkpoint(w, progress, pc, retry) ==
    /\ table' = update_job_status(table, worker[w].batch[worker[w].i].job_id,
                                  "processing", <<progress>>, <<>>, EmptyItem, now)
    /\ worker' = [worker EXCEPT ![w].pc = pc, ![w].retry = retry]
    /\ UNCHANGED <<queue, terminal_writes>>

\* The loop body of handler up to the first write of process_job.
WorkerStart(w, env_ok) ==
    LET m == worker[w].batch[worker[w].i] IN
    /\ worker[w].pc = "start"
    /\ IF m.job_id = "" \/ m.s3_upload_key = <<>>
       THEN WorkerNext(w) /\ UNCHANGED <<table, terminal_writes>>
       ELSE IF ~env_ok
       THEN WorkerRaise(w, NoRetry) /\ UNCHANGED <<table, terminal_writes>>
       ELSE Checkpoint(w, 10, "fetch", NoRetry)
    /\ UNCHANGED <<now, s3h, http, generated, ingest>>

\* download_image_from_s3(upload_bucket, s3_upload_key): the object the worker
\* reads for a message, in the bucket named by S3_UPLOAD_BUCKET.
download_object(m) == [bucket |-> UploadBucket, key |-> m.s3_upload_key]

\* A fetch whose failure is passed over: the attempt goes on to the agent.
WorkerFetch_goes_on(w, ok) ==
    /\ worker[w].pc = "fetch"
    /\ Checkpoint(w, 20, "pre", NoRetry)
    /\ UNCHANGED <<now, s3h, http, generated, ingest>>

\* download_image_from_s3, then progress 20.
WorkerFetch(w, ok) ==
    /\ worker[w].pc = "fetch"
    /\ IF ok THEN Checkpoint(w, 20, "pre", NoRetry)
       ELSE WorkerFail(w, DownloadError, NoRetry)
    /\ UNCHANGED <<now, s3h, http, generated, ingest>>

\* progress 30, before the agent is invoked.
WorkerPre(w) ==
    /\ worker[w].pc = "pre"
    /\ Checkpoint(w, 30, "agent", NoRetry)
    /\ UNCHANGED <<now, s3h, http, generated, ingest>>

\* invoke_agent under its retry decorator, then progress 80.  Without
\* AGENT_RUNTIME_ARN every attempt raises ValueError.
WorkerAgent(w, arn, outcomes) ==
    LET r == retry_with_exponential_backoff(
                 [k \in 1..max_retries |-> arn /\ outcomes[k]], max_retries)
    IN
    /\ worker[w].pc = "agent"
    /\ IF r.ok THEN Checkpoint(w, 80, "store", r)
       ELSE WorkerFail(w, IF arn THEN AgentError ELSE ArnError, r)
    /\ UNCHANGED <<now, s3h, http, generated, ingest>>

avatar_key(job_id) == <<"generated", job_id, "avatar.png">>

\* upload_image_to_s3 when the agent returned an image, then progress 90.
WorkerStore(w, upload_ok) ==
    LET job_id == worker[w].batch[worker[w].i].job_id IN
    /\ worker[w].pc = "store"
    /\ IF AgentResult.avatar_image_base64 # "" /\ ~upload_ok
       THEN WorkerFail(w, UploadError, worker[w].retry) /\ UNCHANGED generated
       ELSE /\ Checkpoint(w, 90, "final", worker[w].retry)
            /\ generated' = IF AgentResult.avatar_image_base64 # ""
                            THEN generated (+) SetToBag({avatar_key(job_id)})
                            ELSE generated
    /\ UNCHANGED <<now, s3h, http, ingest>>

\* The completed write with the results, then process_job returns.  When
\* the serializer rejects the results, update_item raises inside the try
\* and the except clause takes over.
WorkerFinal(w) ==
    LET job_id == worker[w].batch[worker[w].i].job_id
        results == [identity_package |-> AgentResult.identity_package,
                    pet_analysis |-> AgentResult.pet_analysis,
                    s3_avatar_key |-> avatar_key(job_id)]
    IN
    /\ worker[w].pc = "final"
    /\ IF TypeSerializerRaises(ResultNumbers(results))
       THEN WorkerFail(w, FloatError, worker[w].retry)
       ELSE /\ table' = update_job_status(table, job_id, "completed", <<100>>,
                                          <<>>, results, now)
            /\ terminal_writes' = terminal_writes (+) SetToBag({job_id})
            /\ WorkerNext(w)
    /\ UNCHANGED <<now, s3h, http, generated, ingest>>

\* ----------------------------------------------- presigned-url-handler
\* One request for an upload URL.  uuid: the uuid4 drawn for the job id.
PresignedUrlHandler(req, env, secret, uuid) ==
    /\ request' = Received("presigned", req, env, secret)
    /\ IF ~validate_api_key(req.api_key, env.secret_arn, secret)
       THEN resp' = create_error_response("presigned", 401, "AuthenticationError")
       ELSE IF ~env.config
       THEN resp' = handle_lambda_errors("presigned", Exc("ValueError", ""))
       ELSE resp' = [handler |-> "presigned", statusCode |-> 200, job_id |-> uuid,
                     s3_key |-> <<"uploads", uuid, "original">>]
    /\ calls' = {} /\ seen' = {}
    /\ UNCHANGED <<table, queue, now, worker, s3h, output, ingest>>

\* -------------------------------------------- reading a record back
\* response['Item'] of the resource's get_item: the stored attributes, every
\* number (progress, ttl, the numbers inside a stored map) as a Decimal.
TypeDeserializer(item) ==
    [a \in DOMAIN item |->
        IF a \in {"progress", "ttl"} THEN Number("Decimal", item[a])
        ELSE IF a = "identity_package"
        THEN [item[a] EXCEPT !.similarity_score = Number("Decimal", @.n)]
        ELSE item[a]]

\* item.get('progress', 0)
get_progress(item) ==
    IF "progress" \in DOMAIN item THEN item.progress ELSE Number("int", 0)

\* ------------------------------------------------------- status-handler
StatusBody(job_id, item) ==
    Merge([handler |-> "status", statusCode |-> 200, job_id |-> job_id,
           status |-> IF "status" \in DOMAIN item THEN item.status ELSE "unknown",
           progress |-> get_progress(item)],
          Opt("error",
              "status" \in DOMAIN item /\ item.status = "failed"
                  /\ "error_message" \in DOMAIN item,
              item.error_message))

\* A status query that stamps the record it reads.
StatusHandler_touch(req, env, secret) ==
    /\ request' = Received("status", req, env, secret)
    /\ resp' = create_error_response("status", 500, "InternalError")
    /\ calls' = {"get_item"} /\ seen' = get_item(table, req.job_id)
    /\ table' = IF get_item(table, req.job_id) = {} THEN table
                ELSE update_item(table, req.job_id, [accessed_at |-> now])
    /\ UNCHANGED <<queue, now, worker, s3h, output, ingest>>

\* One status query.  req: the api key and the job_id path parameter.
\* A TypeError of json.dumps leaves the handler for handle_lambda_errors.
StatusHandler(req, env, secret) ==
    LET found == get_item(table, req.job_id)
        item == TypeDeserializer(CHOOSE r \in found : TRUE)
    IN
    /\ request' = Received("status", req, env, secret)
    /\ IF ~validate_api_key(req.api_key, env.secret_arn, secret)
       THEN /\ resp' = create_error_response("status", 401, "AuthenticationError")
            /\ calls' = {} /\ seen' = {}
       ELSE IF req.job_id = ""
       THEN /\ resp' = create_error_response("status", 400, "ValidationError")
            /\ calls' = {} /\ seen' = {}
       ELSE IF ~env.config
       THEN /\ resp' = handle_lambda_errors("status", Exc("ValueError", ""))
            /\ calls' = {} /\ seen' = {}
       ELSE /\ calls' = {"get_item"} /\ seen' = found
            /\ IF found = {}
               THEN resp' = create_error_response("status", 404, "NotFoundError")
               ELSE IF json_dumps_raises({get_progress(item)})
               THEN resp' = handle_lambda_errors("status", Exc("TypeError", ""))
               ELSE resp' = StatusBody(req.job_id, item)
    /\ UNCHANGED <<table, queue, now, worker, s3h, output, ingest>>

\* ------------------------------------------------------- result-handler
\* One result query.  presign_ok: whether generate_presigned_url returns.
\* create_error_response and the 200 body both end in json.dumps.
ResultHandler(req, env, secret, presign_ok) ==
    LET found == get_item(table, req.job_id)
        item == TypeDeserializer(CHOOSE r \in found : TRUE)
    IN
    /\ request' = Received("result", req, env, secret)
    /\ IF ~validate_api_key(req.api_key, env.secret_arn, secret)
       THEN /\ resp' = create_error_response("result", 401, "AuthenticationError")
            /\ calls' = {} /\ seen' = {}
       ELSE IF req.job_id = ""
       THEN /\ resp' = create_error_response("result", 400, "ValidationError")
            /\ calls' = {} /\ seen' = {}
       ELSE IF ~env.config
       THEN /\ resp' = handle_lambda_errors("result", Exc("ValueError", ""))
            /\ calls' = {} /\ seen' = {}
       ELSE /\ calls' = {"get_item"} /\ seen' = found
            /\ IF found = {}
               THEN resp' = create_error_response("result", 404, "NotFoundError")
               ELSE IF ~("status" \in DOMAIN item /\ item.status = "completed")
               THEN IF json_dumps_raises({get_progress(item)})
                    THEN resp' = handle_lambda_errors("result", Exc("TypeError", ""))
                    ELSE resp' =
                           Merge(create_error_response("result", 409, "ConflictError"),
                                 [details |->
                                    [status |-> IF "status" \in DOMAIN item
                                                THEN item.status ELSE "",
                                     progress |-> get_progress(item)]])
               ELSE IF ~("s3_avatar_key" \in DOMAIN item /\ item.s3_avatar_key # <<>>)
               THEN resp' = create_error_response("result", 500, "InternalError")
               ELSE IF ~presign_ok
               THEN \E code \in ErrorCodes :
                      resp' = handle_lambda_errors("result", Exc("ClientError", code))
               ELSE IF json_dumps_raises(ResultNumbers(item))
               THEN resp' = handle_lambda_errors("result", Exc("TypeError", ""))
               ELSE resp' = [handler |-> "result", statusCode |-> 200,
                             job_id |-> req.job_id, avatar_url |-> item.s3_avatar_key,
                             identity |-> IF "identity_package" \in DOMAIN item
                                          THEN item.identity_package ELSE "",
                             pet_analysis |-> IF "pet_analysis" \in DOMAIN item
                                              THEN item.pet_analysis ELSE ""]
    /\ UNCHANGED <<table, queue, now, worker, s3h, output, ingest>>

\* ---------------------------------------------------------------- clock
Tick ==
    /\ now < MaxTime
    /\ now' = now + 1
    /\ UNCHANGED <<table, queue, worker, s3h, http, output, ingest>>

\* The 7-day window passes (the handlers read the clock in seconds).
Later ==
    /\ now <= MaxTime
    /\ now' = now + ttl_window
    /\ UNCHANGED <<table, queue, worker, s3h, http, output, ingest>>

\* DynamoDB time-to-live on the attribute ttl: an item whose ttl has passed
\* is deleted; an item without the attribute is never deleted.
Retention ==
    /\ \E r \in table :
          /\ "ttl" \in DOMAIN r
          /\ r.ttl <= now
          /\ table' = table \ {r}
    /\ UNCHANGED <<queue, now, worker, s3h, http, output, ingest>>

\* --------------------------------------------------------------- inputs
\* Object keys of storage events: one of the upload layout, and keys that
\* miss the prefix, the job id, or the part after the job id.
KeyNoId == <<"uploads", "", "x.png">>
KeyShort == <<"uploads", "a">>
\* An object placed under a job id with a space in it.
KeySpace == <<"uploads", "a b", "original">>
\* record['s3']['object']['key']: S3 writes the object key into the event
\* URL-encoded (a space becomes '+'), and the handler uses it as it comes.
S3EventKey(key) == [i \in DOMAIN key |-> IF key[i] = "a b" THEN "a+b" ELSE key[i]]
KeyedEvents ==
    UNION {[1..n -> {[bucket |-> UploadBucket, key |-> S3EventKey(k)] :
                        k \in {KeyA, KeyOther, KeyNoRest, KeyNoId, KeyShort,
                               KeySpace}}] :
           n \in 1..MaxBatch}

\* ------------------------------------------------------- specification
Init ==
    /\ table = {}
    /\ queue = EmptyBag
    /\ now = 0
    /\ worker = [w \in Workers |-> WorkerIdle]
    /\ s3h = S3Idle(0, 0, 0)
    /\ request = Received("none", [api_key |-> ""], [secret_arn |-> TRUE], GoodSecret)
    /\ resp = [handler |-> "none", statusCode |-> 0]
    /\ calls = {}
    /\ seen = {}
    /\ generated = EmptyBag
    /\ terminal_writes = EmptyBag
    /\ triggers = 0
    /\ enqueued = {}
    /\ handled = {}

Envs == [secret_arn : BOOLEAN, config : BOOLEAN]
AwsOutcomes == {"ok", "put_fails", "send_fails"}
Uris == {NoUri, BadUri, Uri(UploadBucket, KeyA), Uri(UploadBucket, KeyB),
         Uri(UploadBucket, KeyNoRest), Uri(UploadBucket, KeyOther),
         Uri(OtherBucket, KeyA)}

\* The requests of a client that holds the key and starts the jobs it
\* uploaded, in a deployment with its configuration in place.
GoodEnv == [secret_arn |-> TRUE, config |-> TRUE]
StartRequests ==
    [api_key : {StoredKey}, body : {"object"},
     s3_uri : {Uri(UploadBucket, KeyA), Uri(UploadBucket, KeyB)}]
StartHeads ==
    {[raises |-> FALSE, ContentType |-> "image/png", ContentLength |-> 1],
     [raises |-> FALSE, ContentType |-> "image/gif", ContentLength |-> 1]}

ClientStart ==
    \E req \in StartRequests, head \in StartHeads, uuid \in Uuids,
       aws \in AwsOutcomes :
        ProcessHandler(req, GoodEnv, GoodSecret, head, uuid, aws)

StorageEvent ==
    \/ \E event \in Events, env \in {e \in Envs : e.secret_arn} : S3Begin(event, env)
    \/ \E aws_ok \in BOOLEAN : S3Get(aws_ok)
    \/ \E aws \in AwsOutcomes : S3Write(aws)

\* The api key sent with what guards it.  The secret is held at one value
\* where validate_api_key returns without asking for it.
AuthCases ==
    {c \in [api_key : ApiKeys, secret_arn : BOOLEAN, secret : SecretStates] :
        (c.api_key = "" \/ ~c.secret_arn) => c.secret = GoodSecret}
NoHead == [raises |-> TRUE, ContentType |-> "", ContentLength |-> 0]

\* Every start request of a client that starts one job, with every answer
\* of the collaborators.  An input the handler returns without reading is
\* held at one value.
ClientRequest ==
    \E c \in AuthCases :
      LET auth == validate_api_key(c.api_key, c.secret_arn, c.secret) IN
      \E body \in (IF auth THEN Bodies ELSE {"absent"}) :
      \E s3_uri \in (IF auth /\ body = "object" THEN Uris ELSE {NoUri}) :
        LET uri == auth /\ parse_s3_uri_ok(s3_uri) IN
        \E head \in (IF uri THEN HeadResults ELSE {NoHead}) :
          LET obj == uri /\ validate_s3_object(head) IN
          \E config \in (IF obj THEN BOOLEAN ELSE {TRUE}) :
            \E aws \in (IF obj /\ config THEN AwsOutcomes ELSE {"ok"}),
               uuid \in Uuids :
                /\ (obj /\ config) => triggers = 0
                /\ ProcessHandler([api_key |-> c.api_key, body |-> body,
                                   s3_uri |-> s3_uri],
                                  [secret_arn |-> c.secret_arn, config |-> config],
                                  c.secret, head, uuid, aws)

PathIds == {"", "a", "zz"}

PresignedUrl ==
    \E c \in AuthCases, config \in BOOLEAN, uuid \in {"a", "b"} :
        PresignedUrlHandler([api_key |-> c.api_key],
                            [secret_arn |-> c.secret_arn, config |-> config],
                            c.secret, uuid)

StatusQuery ==
    \E c \in AuthCases, job_id \in PathIds, config \in BOOLEAN :
        StatusHandler([api_key |-> c.api_key, job_id |-> job_id],
                      [secret_arn |-> c.secret_arn, config |-> config], c.secret)

ResultQuery ==
    \E c \in AuthCases, job_id \in PathIds, config \in BOOLEAN,
       presign_ok \in BOOLEAN :
        ResultHandler([api_key |-> c.api_key, job_id |-> job_id],
                      [secret_arn |-> c.secret_arn, config |-> config], c.secret,
                      presign_ok)

WorkerStep(w) ==
    \/ \E batch \in Batches : Deliver(w, batch)
    \/ \E env_ok \in BOOLEAN : WorkerStart(w, env_ok)
    \/ \E ok \in BOOLEAN : WorkerFetch(w, ok)
    \/ WorkerPre(w)
    \/ \E arn \in BOOLEAN, outcomes \in [1..max_retries -> BOOLEAN] :
          WorkerAgent(w, arn, outcomes)
    \/ \E upload_ok \in BOOLEAN : WorkerStore(w, upload_ok)
    \/ WorkerFinal(w)

Next ==
    \/ ClientStart
    \/ StorageEvent
    \/ \E w \in Workers : WorkerStep(w)
    \/ Tick

Spec == Init /\ [][Next]_vars

\* The two ingestion handlers racing over the job table, with one worker
\* taking what they enqueue.
IngestNext ==
    \/ ClientStart
    \/ StorageEvent
    \/ WorkerStep(1)

IngestSpec == Init /\ [][IngestNext]_vars

\* Ingestion and one worker over a table whose records expire.
RetentionNext ==
    \/ ClientStart
    \/ StorageEvent
    \/ WorkerStep(1)
    \/ Later
    \/ Retention

RetentionSpec == Init /\ [][RetentionNext]_vars

\* Storage events over every kind of object key, next to a client that
\* starts the same jobs.
EventNext ==
    \/ ClientStart
    \/ \E event \in KeyedEvents : S3Begin(event, GoodEnv)
    \/ \E aws_ok \in BOOLEAN : S3Get(aws_ok)
    \/ \E aws \in AwsOutcomes : S3Write(aws)

EventSpec == Init /\ [][EventNext]_vars

\* The client-facing API over the job table that one worker and the
\* client's own start requests produce.
ApiNext ==
    \/ ClientRequest
    \/ PresignedUrl
    \/ StatusQuery
    \/ ResultQuery
    \/ WorkerStep(1)

ApiSpec == Init /\ [][ApiNext]_vars

\* The pipeline with its configuration in place and every ingestion call
\* succeeding: the queue hands each message to a worker, every worker step
\* is eventually taken and every call of a worker returns, with success or
\* failure; a storage-event invocation runs to its end.
GoodHead == [raises |-> FALSE, ContentType |-> "image/png", ContentLength |-> 1]

LiveStart ==
    \E req \in StartRequests :
        ProcessHandler(req, GoodEnv, GoodSecret, GoodHead, "uuid-1", "ok")

LiveEvent ==
    \/ \E event \in Events : S3Begin(event, GoodEnv)
    \/ S3Get(TRUE)
    \/ S3Write("ok")

LiveWorker(w) ==
    \/ \E batch \in Batches : Deliver(w, batch)
    \/ WorkerStart(w, TRUE)
    \/ \E ok \in BOOLEAN : WorkerFetch(w, ok)
    \/ WorkerPre(w)
    \/ \E outcomes \in [1..max_retries -> BOOLEAN] : WorkerAgent(w, TRUE, outcomes)
    \/ WorkerStore(w, TRUE)
    \/ WorkerFinal(w)

LiveNext ==
    \/ LiveStart
    \/ LiveEvent
    \/ \E w \in Workers : LiveWorker(w)

LiveSpec ==
    /\ Init
    /\ [][LiveNext]_vars
    /\ \A w \in Workers : WF_vars(LiveWorker(w))
    /\ WF_vars(S3Get(TRUE) \/ S3Write("ok"))

\* ================================================================ claims
JobIds == {r.job_id : r \in table}
Item(job_id) == CHOOSE r \in get_item(table, job_id) : TRUE
HasResult(r) ==
    \/ "identity_package" \in DOMAIN r
    \/ "pet_analysis" \in DOMAIN r
    \/ "s3_avatar_key" \in DOMAIN r
\* A step of a process-worker invocation: no other action changes worker.
WorkerMoved == worker' # worker

\* C1: once a job's stored status is completed or failed, no step of a
\* worker handling a further dispatch message changes its record.
C1_TerminalImmutable ==
    [][WorkerMoved => \A r \in table : r.status \in Terminal => r \in table']_vars

\* C2: a record carries result fields exactly when its status is completed
\* and an error message exactly when its status is failed.
C2_ResultIffCompleted ==
    \A r \in table :
        /\ HasResult(r) <=> r.status = "completed"
        /\ "error_message" \in DOMAIN r <=> r.status = "failed"

\* C3: the stored progress of a job that has not reached a terminal state
\* never decreases.
C3_ProgressMonotonic ==
    [][\A r \in table : \A r2 \in table' :
          (r2.job_id = r.job_id /\ r.status \notin Terminal)
              => r2.progress >= r.progress]_vars

\* C4: an ingestion trigger that finds the record of its job present and
\* enqueues its dispatch message leaves the record's status and progress
\* as they were.
C4_TriggerKeepsStatus ==
    [][\A r \in table :
          r.job_id \in Sent(queue, queue')
              => \E r2 \in table' : /\ r2.job_id = r.job_id
                                    /\ r2.status = r.status
                                    /\ r2.progress = r.progress]_vars

\* C5: a worker that is past its first write and finds its job already
\* moved to a terminal status by a concurrent worker changes nothing of
\* the record with its next checkpoint or terminal write.
C5_SkipAfterTerminal ==
    [][\A w \in Workers :
          (worker'[w] # worker[w]
             /\ worker[w].pc \in {"fetch", "pre", "agent", "store", "final"})
          => \A r \in get_item(table, worker[w].batch[worker[w].i].job_id) :
                 r.status \in Terminal => r \in table']_vars

\* C6: once a client start request and a storage event for the same key
\* uploads/{id}/<rest> have both been answered with success, exactly one
\* record with job_id = id exists and a dispatch message for id has been
\* enqueued.
C6_OneRecordOneDispatch ==
    \A key \in {KeyA, KeyB} :
        {<<"client", key>>, <<"event", key>>} \subseteq handled
            => /\ Cardinality({r \in table : r.job_id = key[2]}) = 1
               /\ key[2] \in enqueued

C6_Witness ==
    /\ {<<"client", KeyA>>, <<"event", KeyA>>} \subseteq handled
    /\ \E r \in table : r.job_id = "a" /\ r.status \in Terminal

\* C7: no step of the storage-event handler replaces a record that exists
\* at the moment of its write by a fresh queued, progress-0 record: its
\* existence check and its put act as one atomic create-if-absent.
C7_AtomicCreateIfAbsent ==
    [][s3h' # s3h =>
          \A r \in table :
              \/ r \in table'
              \/ ~\E r2 \in table' :
                     /\ r2.job_id = r.job_id
                     /\ r2.status = "queued"
                     /\ r2.progress = 0
                     /\ r2.created_at = r2.updated_at]_vars

\* The start requests that fail validation: no s3_uri (no body at all, or
\* none in it), a URI that is not s3://bucket/key, an object that cannot be
\* found, a content type that is not allowed, an object over 50 MB.
FailsValidation(body, s3_uri, head) ==
    \/ body \in {"absent", "null"}
    \/ s3_uri \in {NoUri, BadUri}
    \/ head.raises
    \/ head.ContentType \notin {"image/jpeg", "image/png", "image/heic"}
    \/ head.ContentLength > 50 * 1024 * 1024

\* C8: a client start request that fails validation is answered with a 4xx
\* status and leaves the job table and the queue as they were.
C8_ValidationFailureRejected ==
    [][(/\ request'.handler = "process"
        /\ \/ resp'.statusCode \notin 400..499
           \/ table' # table
           \/ queue' # queue)
       => ~\E c \in AuthCases, body \in Bodies, s3_uri \in Uris,
             head \in HeadResults, config \in BOOLEAN, aws \in AwsOutcomes :
               /\ FailsValidation(body, s3_uri, head)
               /\ ProcessHandler([api_key |-> c.api_key, body |-> body,
                                  s3_uri |-> s3_uri],
                                 [secret_arn |-> c.secret_arn, config |-> config],
                                 c.secret, head, "uuid-1", aws)]_vars

\* A step of a client-facing handler: no other action of the API leaves
\* worker as it is.
ApiStep == worker' = worker
Refused ==
    /\ resp'.statusCode = 401
    /\ calls' = {}
    /\ table' = table
    /\ queue' = queue

\* C9 as claimed: every client-facing handler answers 401, without a job
\* table read or write and without an enqueue, whenever the x-api-key is
\* missing or differs from the centrally stored secret.
C9_KeyMismatchRefused ==
    [][(/\ ApiStep
        /\ \/ request'.api_key = ""
           \/ request'.secret.raises
           \/ request'.api_key # request'.secret.api_key)
       => Refused]_vars

\* C9 as amended: every client-facing handler answers 401, without a job
\* table read or write and without an enqueue, whenever the x-api-key is
\* missing, or the handler is configured with the secret (API_KEY_SECRET_ARN
\* is set) and the key differs from it or the secret cannot be read.
C9_ConfiguredKeyMismatchRefused ==
    [][(/\ ApiStep
        /\ \/ request'.api_key = ""
           \/ /\ request'.secret_arn
              /\ \/ request'.secret.raises
                 \/ request'.api_key # request'.secret.api_key)
       => Refused]_vars

C9_Witness ==
    /\ request.handler = "result"
    /\ request.api_key = "k-bad"
    /\ request.secret_arn
    /\ ~request.secret.raises
    /\ resp.statusCode = 401
    /\ calls = {}
    /\ \E r \in table : r.job_id = "a" /\ r.status \in Terminal

\* C10: every job for which a dispatch message has been enqueued eventually
\* has the status completed or failed.
C10_EnqueuedReachesTerminal ==
    \A id \in {"a", "b"} :
        (id \in enqueued) ~> (\E r \in get_item(table, id) : r.status \in Terminal)

\* The step in which process_job writes failed and re-raises: it leaves
\* fetch, agent or store and ends the invocation.
WritesFailed(w) ==
    /\ worker[w].pc \in {"fetch", "agent", "store", "final"}
    /\ worker'[w].pc = "idle"
    /\ \E r \in get_item(table', worker[w].batch[worker[w].i].job_id) :
          r.status = "failed"
Current(w) == worker[w].batch[worker[w].i]

\* C11: when process_job ends a job with the failed write, the invocation
\* reports failure to the queue: the dispatch message is not acknowledged
\* and is in the queue again for redelivery or dead-lettering.
C11_FailureSurfaced ==
    [][\A w \in Workers :
          WritesFailed(w)
              => CopiesIn(Current(w), queue') > CopiesIn(Current(w), queue)]_vars

\* C13: when the one dispatch message of a newly queued job is processed
\* and the agent call fails twice and succeeds on the third attempt, the
\* job ends completed with progress 100 and no error field, after exactly
\* one write of a terminal status.
C13_FailTwiceThenComplete ==
    [][\A w \in Workers :
          triggers = 1 =>
            /\ WorkerAgent(w, TRUE, <<FALSE, FALSE, TRUE>>)
                 => /\ worker'[w].pc = "store"
                    /\ worker'[w].retry.attempts = 3
            /\ (/\ worker[w].pc = "final"
                /\ worker'[w] # worker[w]
                /\ worker[w].retry.attempts = 3)
                 => \E r \in get_item(table', Current(w).job_id) :
                       /\ r.status = "completed"
                       /\ r.progress = 100
                       /\ "error_message" \notin DOMAIN r
                       /\ CopiesIn(r.job_id, terminal_writes') = 1]_vars

\* C14: when the agent call fails on every attempt while a dispatch
\* message is processed, the job's record ends failed with a non-empty
\* error message and without result fields.
C14_AllAttemptsFail ==
    [][\A w \in {v \in Workers : worker[v].pc = "agent" /\ worker'[v] # worker[v]} :
       \A arn \in BOOLEAN : \A outcomes \in [1..max_retries -> BOOLEAN] :
          (/\ \A k \in 1..max_retries : ~(arn /\ outcomes[k])
           /\ WorkerAgent(w, arn, outcomes))
              => \E r \in get_item(table', Current(w).job_id) :
                    /\ r.status = "failed"
                    /\ "error_message" \in DOMAIN r
                    /\ r.error_message # <<>>
                    /\ ~HasResult(r)]_vars

C14_Witness ==
    /\ worker[1].pc = "idle"
    /\ worker[1].retry = [ok |-> FALSE, attempts |-> 3, delays |-> <<1, 2>>]
    /\ \E r \in table : /\ r.status = "failed"
                        /\ r.error_message = ErrorMessage(AgentError)

\* What the retry wrapper owes for a call whose attempts end as outcomes,
\* with at most n attempts: r is what it did.
RetryLaw(r, outcomes, n) ==
    /\ r.attempts \in 1..n
    /\ r.ok <=> \E k \in 1..n : outcomes[k]
    /\ r.ok => /\ outcomes[r.attempts]
               /\ \A k \in 1..(r.attempts - 1) : ~outcomes[k]
    /\ ~r.ok => r.attempts = n
    /\ Len(r.delays) = r.attempts - 1
    /\ \A k \in 1..Len(r.delays) :
          r.delays[k] = IF k = 1 THEN 1
                        ELSE IF 2 * r.delays[k - 1] < 60 THEN 2 * r.delays[k - 1]
                        ELSE 60

C16_StructuralErrorNoRetry ==
    [][\A w \in Workers :
          LET failed == \E r \in get_item(table', Current(w).job_id) :
                            r.status = "failed"
          IN
          /\ (WorkerStart(w, FALSE) /\ Current(w).job_id # "") => failed
          /\ WorkerFetch(w, FALSE)
               => failed /\ worker'[w].retry.attempts = 0
          /\ (\E outcomes \in [1..max_retries -> BOOLEAN] :
                 WorkerAgent(w, FALSE, outcomes))
               => failed /\ worker'[w].retry.attempts = 1]_vars


\* C17: an authorized result query answers 404 when no record exists, 409
\* with the record's current status and progress when the status is not
\* completed, 500 when the status is completed and s3_avatar_key is
\* missing, and 200 with the artifact URL only when the status is completed
\* and s3_avatar_key is present.
C17_ResultQueryResponses ==
    [][\A job_id \in PathIds \ {""} : \A presign_ok \in BOOLEAN :
          ResultHandler([api_key |-> StoredKey, job_id |-> job_id],
                        GoodEnv, GoodSecret, presign_ok)
          => LET found == {r \in table : r.job_id = job_id} IN
             /\ found = {} => resp'.statusCode = 404
             /\ \A r \in found :
                  /\ r.status # "completed"
                       => /\ resp'.statusCode = 409
                          /\ resp'.details.status = r.status
                          /\ "progress" \in DOMAIN r
                               => resp'.details.progress.n = r.progress
                  /\ (r.status = "completed" /\ "s3_avatar_key" \notin DOMAIN r)
                       => resp'.statusCode = 500
                  /\ resp'.statusCode = 200
                       => r.status = "completed" /\ "s3_avatar_key" \in DOMAIN r]_vars


\* The status and progress a response carries, if any.
Reported(r) ==
    IF "status" \in DOMAIN r THEN <<r.status, r.progress>>
    ELSE IF "details" \in DOMAIN r THEN <<r.details.status, r.details.progress>>
    ELSE <<>>

\* C18: a status query and a result query, whatever the request and the
\* job's state, leave every job record and the queue as they are; and a
\* query that follows one of the same handler and credentials and reads the
\* same record as it did gets the same status code, status and progress.
C18_QueriesArePureReads ==
    [][(ApiStep /\ request'.handler \in {"status", "result"})
       => \A job_id \in PathIds, config \in BOOLEAN :
            LET req == [api_key |-> request'.api_key, job_id |-> job_id]
                env == [secret_arn |-> request'.secret_arn, config |-> config]
                Again == /\ request = request'
                         /\ calls = {"get_item"} /\ calls' = calls
                         /\ seen' = seen
                Pure == table' = table /\ queue' = queue
                Same == /\ Reported(resp') = Reported(resp)
                        /\ resp'.statusCode # resp.statusCode
                             => {resp.statusCode, resp'.statusCode} = {200, 500}
            IN
            /\ StatusHandler(req, env, request'.secret)
                 => Pure /\ (Again => resp' = resp)
            /\ \A presign_ok \in BOOLEAN :
                 ResultHandler(req, env, request'.secret, presign_ok)
                   => Pure /\ (Again => Same)]_vars

C18_Witness ==
    /\ request.handler = "status"
    /\ calls = {"get_item"}
    /\ seen # {}
    /\ seen \subseteq table
    /\ resp.statusCode = 500
    /\ queue # EmptyBag


\* C20: every record carries ttl = created_at + the 7-day window, and once
\* a record is written no step changes its created_at or its ttl, a
\* further ingestion trigger for the same job_id included.
C20_TtlFixedAtCreation ==
    [][/\ \A r \in table' :
            /\ {"created_at", "ttl"} \subseteq DOMAIN r
            /\ r.ttl = r.created_at + ttl_window
       /\ \A r \in table : \A r2 \in table' :
            r2.job_id = r.job_id
                => r2.created_at = r.created_at /\ r2.ttl = r.ttl]_vars


\* C21: records are created only by the ingestion handlers, queued with
\* progress 0: no step of a worker brings a record into existence for a
\* job_id that has none, and every record in the table has created_at, the
\* input reference and the expiry.
C21_CreatedOnlyByIngestion ==
    [][/\ \A r \in table' :
            {"created_at", "s3_upload_key", "ttl"} \subseteq DOMAIN r
       /\ \A r \in table' :
            get_item(table, r.job_id) = {}
                => /\ ~WorkerMoved
                   /\ r.status = "queued"
                   /\ r.progress = 0]_vars


\* An object key of the form uploads/{job_id}/<rest>.
UploadLayout(key) ==
    \E id \in {"a", "b", "a b", "a+b"} : \E rest \in {<<"original">>, <<"photo.png">>} :
        key = <<"uploads", id>> \o rest

\* C22: a storage-event record whose key is not of the form
\* uploads/{job_id}/<rest> creates no record and enqueues nothing, adds one
\* to the error count, and the invocation goes on: to the next record, or
\* to its 200 summary after the last one.
C22_BadKeySkipped ==
    [][(/\ s3h.pc = "get"
        /\ s3h' # s3h
        /\ ~UploadLayout(Head(s3h.recs).key))
       => /\ table' = table
          /\ queue' = queue
          /\ s3h'.errors = s3h.errors + 1
          /\ s3h'.processed = s3h.processed
          /\ IF Len(s3h.recs) > 1
             THEN s3h'.pc = "get" /\ s3h'.recs = Tail(s3h.recs)
             ELSE s3h'.pc = "idle" /\ s3h'.statusCode = 200]_vars

C22_Witness ==
    /\ s3h.pc = "idle"
    /\ s3h.statusCode = 200
    /\ s3h.errors = 1
    /\ s3h.processed = 1
    /\ table = {NewItem("a", KeyA, 0)}
    /\ handled = {<<"event", KeyA>>}


\* C23: when a client start request with a valid storage reference has
\* returned successfully the record of the returned job_id is queued with
\* progress 0, and a status query for that job made next, before any
\* worker step, answers with status queued.
C23_StartThenStatusQueued ==
    [][/\ (ApiStep /\ request'.handler = "process" /\ resp'.statusCode = 200)
          => \E r \in get_item(table', resp'.job_id) :
                r.status = "queued" /\ r.progress = 0
       /\ (/\ request.handler = "process"
           /\ resp.statusCode = 200
           /\ \E r \in get_item(table, resp.job_id) : r.status = "queued")
          => \A env \in {e \in Envs : e.config} :
               StatusHandler([api_key |-> StoredKey, job_id |-> resp.job_id],
                             env, GoodSecret)
                 => resp'.statusCode = 200 /\ resp'.status = "queued"]_vars


\* The exceptions that end process_job in its failed write.
InternalErrors == {DownloadError, AgentError, ArnError, UploadError, FloatError}

\* C24: the error text stored on a failed job is a client-safe summary: it
\* holds neither the type name nor the message text of the exception that
\* caused the failure.
C24_ErrorTextSanitized ==
    \A r \in table :
        "error_message" \in DOMAIN r
            => \A e \in InternalErrors : \A k \in DOMAIN r.error_message :
                  r.error_message[k] \notin {e.type, e.msg}


\* The objects the start request is said to accept.
AcceptableObject(head) ==
    /\ ~head.raises
    /\ head.ContentType \in {"image/jpeg", "image/png", "image/heic"}
    /\ head.ContentLength # 0
    /\ head.ContentLength < 50 * 1024 * 1024

\* C25: a client start request with a valid key and a well-formed reference
\* passes object validation exactly when the object exists, has one of the
\* three image content types and a length that is non-zero and strictly
\* below 50 MiB; for every other object it answers 400 ValidationError.
C25_ObjectAcceptedIff ==
    [][(ApiStep /\ request'.handler = "process")
       => \A head \in HeadResults, aws \in AwsOutcomes :
            ProcessHandler([api_key |-> StoredKey, body |-> "object",
                            s3_uri |-> Uri(UploadBucket, KeyA)],
                           GoodEnv, GoodSecret, head, "uuid-1", aws)
              => (AcceptableObject(head)
                    <=> resp' # create_error_response("process", 400,
                                                      "ValidationError"))]_vars


\* The exceptions a client-facing handler can let out, and the status code
\* and tag each is to be answered with.
Exceptions ==
    {Exc("ClientError", code) : code \in ErrorCodes}
        \cup {Exc(type, "") : type \in ValueErrors \cup {"TypeError", "KeyError"}}
ClaimedStatus(e) ==
    IF e.type = "ClientError"
    THEN CASE e.code = "AccessDenied" -> 403
           [] e.code = "ResourceNotFoundException" -> 404
           [] e.code = "ThrottlingException" -> 429
           [] OTHER -> 500
    ELSE IF e.type \in ValueErrors THEN 400 ELSE 500
ClaimedTag(e) ==
    IF e.type = "ClientError" THEN "AWSError"
    ELSE IF e.type \in ValueErrors THEN "ValidationError" ELSE "InternalError"

Written(pc) ==
    CASE pc = "start" -> 0
      [] pc = "fetch" -> 10
      [] pc = "pre" -> 20
      [] pc = "agent" -> 30
      [] pc = "store" -> 80
      [] pc = "final" -> 90
InAttempt == {"fetch", "pre", "agent", "store", "final"}

\* C27: within one processing attempt the worker stores the checkpoints in
\* strictly increasing order: 10 at the start, 20 once the input is
\* fetched, 30 before the agent is invoked, 80 once it returned, 90 once the
\* artifact step is done, and 100 only together with status completed.
C27_CheckpointsInOrder ==
    [][\A w \in {v \in Workers : worker'[v] # worker[v]} :
         LET job_id == worker[w].batch[worker[w].i].job_id IN
         /\ (worker[w].pc \in InAttempt \cup {"start"}
               /\ worker'[w].pc \in InAttempt
               /\ worker'[w].i = worker[w].i)
              => /\ Written(worker'[w].pc) > Written(worker[w].pc)
                 /\ \A r \in get_item(table', job_id) :
                       r.status = "processing"
                          /\ r.progress = Written(worker'[w].pc)
         /\ \A r \in table' :
               ("progress" \in DOMAIN r /\ r.progress = 100)
                  => r.status = "completed"]_vars

C27_Witness ==
    \E w \in Workers :
        /\ worker[w].pc = "final"
        /\ \E r \in get_item(table, worker[w].batch[worker[w].i].job_id) :
              r.status = "processing" /\ r.progress = 90


\* C29: when fetching the input bytes fails, the job is moved to failed with
\* an error message, the fetch is not tried again and the agent is not
\* invoked for that delivery: the invocation ends there.
C29_FetchFailureFailsJob ==
    [][\A w \in {v \in Workers : worker[v].pc = "fetch" /\ worker'[v] # worker[v]} :
         WorkerFetch(w, FALSE)
           => /\ \E r \in get_item(table', worker[w].batch[worker[w].i].job_id) :
                    /\ r.status = "failed"
                    /\ "error_message" \in DOMAIN r
                    /\ r.error_message # <<>>
              /\ worker'[w].pc = "idle"
              /\ worker'[w].retry = NoRetry]_vars

C29_Witness ==
    \E w \in Workers : \E r \in table :
        /\ worker[w].pc = "idle"
        /\ r.status = "failed"
        /\ "error_message" \in DOMAIN r
        /\ r.error_message = ErrorMessage(DownloadError)


\* C30: when a worker invocation over several messages ends on a failure,
\* no later message of the batch is lost: each one that this invocation did
\* not process is still on the queue for redelivery.
C30_LaterMessagesKept ==
    [][\A w \in {v \in Workers : worker[v].pc \in InAttempt \cup {"start"}
                                   /\ worker'[v].pc = "idle"} :
         \A k \in (worker[w].i + 1)..Len(worker[w].batch) :
             BagIn(worker[w].batch[k], queue')]_vars


\* The object a storage-event record is about: its key, URL-decoded.
ObjectOf(key) == [i \in DOMAIN key |-> IF key[i] = "a+b" THEN "a b" ELSE key[i]]

\* C31: for every object key uploads/{id}/<non-empty rest> the client-request
\* path and the storage-event path derive the same job id, namely id; so
\* does the key uploads/{job_id}/original that the presigned-url handler
\* issues.
C31_SameJobIdOnBothPaths ==
    /\ \A i \in DOMAIN s3h.recs :
          LET object == ObjectOf(s3h.recs[i].key) IN
          UploadLayout(object)
             => /\ extract_job_id_match(object) = object[2]
                /\ validate_object_key(s3h.recs[i].key) = object[2]
    /\ \A uuid \in Uuids :
          LET s3_key == <<"uploads", uuid, "original">> IN
          /\ extract_job_id_match(s3_key) = uuid
          /\ validate_object_key(S3EventKey(s3_key)) = uuid


\* C32: the object the worker downloads for a job started by a client request
\* is the object that request validated, bucket and key alike.
C32_WorkerFetchesValidatedObject ==
    [][(ApiStep /\ request'.handler = "process" /\ resp'.statusCode = 200)
       => \A s3_uri \in {u \in Uris : parse_s3_uri_ok(u)} :
            ProcessHandler([api_key |-> StoredKey, body |-> "object",
                            s3_uri |-> s3_uri],
                           GoodEnv, GoodSecret, GoodHead, "uuid-1", "ok")
              => \A m \in BagToSet(queue') :
                    CopiesIn(m, queue') > CopiesIn(m, queue)
                       => download_object(m) = parse_s3_uri(s3_uri)]_vars


\* C33: with its default parameters (3 attempts, base delay 1, base 2) the
\* retry wrapper waits 1s, 2s and 4s between the successive attempts of a
\* call that keeps failing.
C33_DefaultDelays ==
    \A w \in Workers :
        (~worker[w].retry.ok /\ worker[w].retry.attempts = max_retries)
           => worker[w].retry.delays = <<1, 2, 4>>


\* Records of the batch in flight that the storage-event handler has or
\* will have accounted for.
Accounted(h) == h.processed + h.errors + Len(h.recs)

\* C34: the storage-event handler counts every record of its batch once, as
\* processed or as an error; processed counts exactly the dispatch messages
\* it enqueued; and after a record that fails (bad record, bad key, store
\* error, enqueue error) the loop goes on to the next record, returning the
\* 200 summary only after the last one.
C34_EveryRecordCounted ==
    [][s3h' # s3h
       => /\ s3h.pc = "idle" => s3h'.processed = 0 /\ s3h'.errors = 0
          /\ s3h.pc # "idle"
               => /\ Accounted(s3h') = Accounted(s3h)
                  /\ s3h'.processed - s3h.processed
                        = BagCardinality(queue') - BagCardinality(queue)
                  /\ s3h'.processed >= s3h.processed
                  /\ s3h'.errors >= s3h.errors
                  /\ s3h'.errors > s3h.errors
                        => IF Len(s3h.recs) > 1
                           THEN s3h'.pc = "get" /\ s3h'.recs = Tail(s3h.recs)
                           ELSE s3h'.pc = "idle" /\ s3h'.statusCode = 200
                  /\ s3h'.pc = "idle" => Len(s3h.recs) = 1]_vars

C34_Witness ==
    /\ s3h.pc = "idle"
    /\ s3h.statusCode = 200
    /\ s3h.processed = 1
    /\ s3h.errors = 1
    /\ BagCardinality(queue) = 1
    /\ Cardinality(table) = 2


\* C35: a status query with valid credentials answers 404 when the job has
\* no record, and otherwise 200 with the stored status and progress; the
\* answer has an error field exactly when the stored status is failed and
\* an error message is stored.
C35_StatusQueryAnswers ==
    [][(ApiStep /\ request'.handler = "status")
       => \A job_id \in PathIds \ {""} :
            StatusHandler([api_key |-> StoredKey, job_id |-> job_id],
                          GoodEnv, GoodSecret)
              => IF get_item(table, job_id) = {}
                 THEN resp'.statusCode = 404
                 ELSE \A r \in get_item(table, job_id) :
                        /\ resp'.statusCode = 200
                        /\ resp'.status = r.status
                        /\ "progress" \in DOMAIN r => resp'.progress.n = r.progress
                        /\ "error" \in DOMAIN resp'
                              <=> (r.status = "failed"
                                     /\ "error_message" \in DOMAIN r)]_vars


\* C36: in every reachable state a record whose status is queued has
\* progress 0, and every stored progress is one of 0, 10, 20, 30, 80, 90, 100.
C36_ProgressValues ==
    \A r \in table :
        /\ ("status" \in DOMAIN r /\ r.status = "queued")
              => ("progress" \in DOMAIN r /\ r.progress = 0)
        /\ "progress" \in DOMAIN r => r.progress \in {0, 10, 20, 30, 80, 90, 100}

C36_Witness ==
    \E r \in table : \E q \in table :
        /\ r.status = "processing" /\ r.progress = 90
        /\ q.status = "queued" /\ q.progress = 0


\* The secret is configured but yields no key: get_secret_value raises, or
\* the secret holds no api_key.
Unretrievable(secret) == secret.raises \/ secret.api_key = ""

\* C38: credential validation fails closed.  When API_KEY_SECRET_ARN is set
\* but the secret cannot be retrieved, validate_api_key is False for every
\* presented key, and every client-facing handler answers 401 without
\* reading or writing the job table and without enqueueing.
C38_FailsClosed ==
    [][(/\ ApiStep
        /\ request'.handler \in {"presigned", "process", "status", "result"}
        /\ request'.secret_arn
        /\ Unretrievable(request'.secret))
       => /\ \A api_key \in ApiKeys :
                ~validate_api_key(api_key, TRUE, request'.secret)
          /\ resp' = create_error_response(request'.handler, 401,
                                           "AuthenticationError")
          /\ calls' = {}
          /\ table' = table
          /\ queue' = queue]_vars

C38_Witness ==
    /\ request.handler = "status"
    /\ request.api_key = StoredKey
    /\ request.secret_arn
    /\ ~request.secret.raises
    /\ request.secret.api_key = ""
    /\ resp.statusCode = 401
    /\ \E r \in table : r.job_id = "a"

====
